---- MODULE Spec2Model ----
(***************************************************************************)
(* A model of numba-cuda/demo.py: the GEMV benchmark driver (argument      *)
(* checks, kernel dispatch by name, the kernels gemv_v1, gemv_v2, gemv_v3  *)
(* with the device kernel _gemv_cuda, validation and exit code) and the    *)
(* tiled shared-memory device kernel _gemv_cuda_shared, run worker by      *)
(* worker under every interleaving.                                        *)
(*                                                                         *)
(* Numbers.  Arrays are 0-indexed functions.  The kernels are modelled     *)
(* over the integers, where the arithmetic is exact.  In the driver the    *)
(* random operands of [0,1) are the fixed-point values k/Scale, k in       *)
(* 0..Scale-1, and every y-value is held in units of                       *)
(* 1/(AlphaDen*Scale*Scale), so that alpha = 0.2 = 1/AlphaDen, applied to  *)
(* a product sum held in units of 1/Scale^2, is the integer factor 1 and   *)
(* the 1.0 of np.ones is the integer One.                                  *)
(***************************************************************************)
EXTENDS Integers, Sequences, FiniteSets, TLC

\* demo.py:81 BLOCK_SIZE = 128, scaled down so that every interleaving of a
\* group's workers can be enumerated.
BLOCK_SIZE == 2
\* Largest dimension N of the tiled-kernel runs.
MaxN == 4
\* Seeds of the operand patterns (the "random" A and x).
MaxSeed == 1
\* Fixed-point resolution of the operands of [0,1).
Scale == 3
\* alpha = 0.2 = 1/AlphaDen
AlphaDen == 5

VARIABLES
    argv,       \* sys.argv[1:], a sequence; argv[1] is a sequence of characters
    pc,         \* position of the driver (__main__)
    N,          \* the array dimension
    version,    \* the version tag as bound by the driver
    alpha,      \* scalar alpha
    beta,       \* scalar beta
    rng,        \* the seeds np.random.rand draws the operands from
    mem,        \* the arrays, host and device, by name
    stderr,     \* lines written to sys.stderr
    stdout,     \* lines written to sys.stdout
    exitCode,   \* the process's exit code, -1 while it runs
    launched,   \* the device launch: kernel, grid, block size, array arguments
    thr,        \* per device worker: pc, tile b, inner index j, prod
    rows,       \* rows gemv_v1's parallel loop has completed
    lx,         \* per execution group: the shared tile buffer
    lxTile,     \* per group and slot: the tile whose load wrote it last, -1 if none
    hwExitedArrive  \* what the device does at a barrier some worker left before

vars == <<argv, pc, N, version, alpha, beta, rng, mem, stderr, stdout, exitCode,
          launched, thr, rows, lx, lxTile, hwExitedArrive>>

--------------------------------------------------------------------------
\* Arrays

Empty == [i \in {} |-> 0]

\* The arrays of a run: the driver's A, x, y_orig and y, a kernel's y_ret, and
\* gemv_v3's device copies.
Arrays == {"A", "x", "y_orig", "y", "y_ret", "d_A", "d_x", "d_y"}

Idx(n) == 0 .. (n - 1)

\* An n-by-m operand pattern with entries in 0..Scale-1.
rand_matrix(n, m, s) == [p \in Idx(n) \X Idx(m) |-> (s + p[1] + 2 * p[2]) % Scale]

\* A length-n operand pattern with entries in 0..Scale-1.
rand_vector(n, s) == [j \in Idx(n) |-> (1 + s + j) % Scale]

RECURSIVE SumTo(_, _)
\* f(0) + ... + f(n-1)
SumTo(f, n) == IF n <= 0 THEN 0 ELSE SumTo(f, n - 1) + f[n - 1]

\* (A @ x)[i] for an n-by-m matrix
Dot(A, x, i, m) == SumTo([j \in Idx(m) |-> A[<<i, j>>] * x[j]], m)

Abs(a) == IF a < 0 THEN 0 - a ELSE a

--------------------------------------------------------------------------
\* The launch configuration

\* gemv_v3: num_blocks = N // BLOCK_SIZE, plus one if N % BLOCK_SIZE
num_blocks_floor(n) == n \div BLOCK_SIZE
num_blocks(n) == (n \div BLOCK_SIZE) + (IF n % BLOCK_SIZE # 0 THEN 1 ELSE 0)

\* The workers of a launch, by global position.
Workers == Idx(launched.grid * launched.block)

blockIdx(t) == t \div launched.block
threadIdx(t) == t % launched.block
\* cuda.grid(1)
grid1(t) == blockIdx(t) * launched.block + threadIdx(t)

Group(g) == {t \in Workers : blockIdx(t) = g}

NewWorker == [pc |-> "entry", b |-> 0, j |-> 0, prod |-> 0]

--------------------------------------------------------------------------
\* The tiled kernel _gemv_cuda_shared(alpha, A, x, beta, y) on d_A, d_x, d_y

\* N, M = A.shape; the launches are square
M == N
bsize == launched.block
\* num_blocks = M // bsize
tiles == M \div bsize

\* The number of barriers worker t has arrived at.
Arrived(t) ==
    CASE thr[t].pc = "entry"   -> 0
      [] thr[t].pc = "load"    -> 2 * thr[t].b
      [] thr[t].pc = "sync1"   -> 2 * thr[t].b + 1
      [] thr[t].pc = "compute" -> 2 * thr[t].b + 1
      [] thr[t].pc = "sync2"   -> 2 * thr[t].b + 2
      [] OTHER                 -> 2 * tiles

\* cuda.syncthreads(): worker t, waiting at its k-th barrier, may go on once
\* every worker of its group has arrived at it.  A worker that has left the
\* kernel never arrives: what the barrier does then is undefined, and the
\* device either counts it as arrived or waits for ever.
syncthreads_nowait(t, k) == TRUE
syncthreads(t, k) ==
    \A u \in Group(blockIdx(t)) :
        IF thr[u].pc = "exit" THEN hwExitedArrive ELSE Arrived(u) >= k

\* The values a read of slot j of group g's lx can return: a slot never
\* written holds whatever the shared memory held.
Garbage == {0, 1}
LxRead(g, j) == IF lxTile[g][j] = -1 THEN Garbage ELSE {lx[g][j]}

\* range(num_blocks): the position after the loop head for tile b
LoopHead(b) == IF b < tiles THEN "load" ELSE "store"

\* the index of x that worker tid loads for tile b
LoadIndexNoTile(tid, b) == tid
LoadIndex(tid, b) == tid + b * bsize

DevUnchanged == UNCHANGED <<argv, pc, N, version, alpha, beta, rng, stderr, stdout,
                            exitCode, launched, rows, hwExitedArrive>>

\* i = cuda.grid(1); if i >= N: return; prod = 0.0
SharedEntry(t) ==
    /\ launched.kernel = "_gemv_cuda_shared"
    /\ thr[t].pc = "entry"
    /\ thr' = [thr EXCEPT ![t] = IF grid1(t) >= N
                                    THEN [@ EXCEPT !.pc = "exit"]
                                    ELSE [@ EXCEPT !.pc = LoopHead(0), !.b = 0,
                                                   !.prod = 0]]
    /\ UNCHANGED <<mem, lx, lxTile>>
    /\ DevUnchanged

\* lx[tid] = x[tid + b*bsize]
SharedLoad(t) ==
    /\ launched.kernel = "_gemv_cuda_shared"
    /\ thr[t].pc = "load"
    /\ LET g == blockIdx(t)
           tid == threadIdx(t)
       IN /\ lx' = [lx EXCEPT ![g][tid] = mem[launched.x][LoadIndex(tid, thr[t].b)]]
          /\ lxTile' = [lxTile EXCEPT ![g][tid] = thr[t].b]
    /\ thr' = [thr EXCEPT ![t].pc = "sync1"]
    /\ UNCHANGED mem
    /\ DevUnchanged

\* the first cuda.syncthreads() of the tile
SharedSync1(t) ==
    /\ launched.kernel = "_gemv_cuda_shared"
    /\ thr[t].pc = "sync1"
    /\ syncthreads(t, 2 * thr[t].b + 1)
    /\ thr' = [thr EXCEPT ![t].pc = "compute", ![t].j = 0]
    /\ UNCHANGED <<mem, lx, lxTile>>
    /\ DevUnchanged

\* one turn of: for j in range(BLOCK_SIZE): prod += A[i, j + b*bsize]*lx[j]
SharedCompute(t) ==
    /\ launched.kernel = "_gemv_cuda_shared"
    /\ thr[t].pc = "compute"
    /\ LET i == grid1(t)
           j == thr[t].j
           b == thr[t].b
       IN \E v \in LxRead(blockIdx(t), j) :
            thr' = [thr EXCEPT ![t].prod = @ + mem[launched.A][<<i, j + b * bsize>>] * v,
                               ![t].j = j + 1,
                               ![t].pc = IF j + 1 < BLOCK_SIZE THEN "compute"
                                                               ELSE "sync2"]
    /\ UNCHANGED <<mem, lx, lxTile>>
    /\ DevUnchanged

\* the second cuda.syncthreads() of the tile, and the loop's next turn
SharedSync2(t) ==
    /\ launched.kernel = "_gemv_cuda_shared"
    /\ thr[t].pc = "sync2"
    /\ syncthreads(t, 2 * thr[t].b + 2)
    /\ thr' = [thr EXCEPT ![t].b = @ + 1, ![t].pc = LoopHead(thr[t].b + 1)]
    /\ UNCHANGED <<mem, lx, lxTile>>
    /\ DevUnchanged

\* y[i] = alpha*prod + beta*y[i]
SharedStore(t) ==
    /\ launched.kernel = "_gemv_cuda_shared"
    /\ thr[t].pc = "store"
    /\ LET i == grid1(t)
       IN mem' = [mem EXCEPT ![launched.y][i] = alpha * thr[t].prod + beta * @]
    /\ thr' = [thr EXCEPT ![t].pc = "done"]
    /\ UNCHANGED <<lx, lxTile>>
    /\ DevUnchanged

\* The operands x and y of the tiled-kernel runs: x without zeros, so that a
\* dropped or misplaced term shows in the sum, and y with distinct entries.
XIn == [j \in Idx(N) |-> 1 + rand_vector(N, rng.x)[j]]
YIn == [i \in Idx(N) |-> 1 + i]

\* A launch of the tiled kernel on an N-by-N problem with ceil(N/BLOCK_SIZE)
\* groups of BLOCK_SIZE workers.
InitShared ==
    /\ argv = <<>>
    /\ pc = "kernel"
    /\ N \in 1 .. MaxN
    /\ version = ""
    /\ alpha \in {1, 2}
    /\ beta \in {0, 1}
    /\ rng \in [A : 0 .. MaxSeed, x : 0 .. MaxSeed]
    /\ mem = [name \in Arrays |->
                CASE name = "d_A" -> rand_matrix(N, N, rng.A)
                  [] name = "d_x" -> XIn
                  [] name = "d_y" -> YIn
                  [] OTHER -> Empty]
    /\ stderr = <<>>
    /\ stdout = <<>>
    /\ exitCode = -1
    /\ launched = [kernel |-> "_gemv_cuda_shared", grid |-> num_blocks(N),
                   block |-> BLOCK_SIZE, A |-> "d_A", x |-> "d_x", y |-> "d_y"]
    /\ thr = [t \in Idx(num_blocks(N) * BLOCK_SIZE) |-> NewWorker]
    /\ rows = {}
    /\ lx = [g \in Idx(num_blocks(N)) |-> [j \in Idx(BLOCK_SIZE) |-> 0]]
    /\ lxTile = [g \in Idx(num_blocks(N)) |-> [j \in Idx(BLOCK_SIZE) |-> -1]]
    /\ hwExitedArrive \in BOOLEAN

NextShared ==
    \/ \E t \in Workers : SharedEntry(t)
    \/ \E t \in Workers : SharedLoad(t)
    \/ \E t \in Workers : SharedSync1(t)
    \/ \E t \in Workers : SharedCompute(t)
    \/ \E t \in Workers : SharedSync2(t)
    \/ \E t \in Workers : SharedStore(t)

SpecShared == InitShared /\ [][NextShared]_vars

--------------------------------------------------------------------------
\* The kernel _gemv_cuda(alpha, A, x, beta, y): one worker per row, no staging

\* i = cuda.grid(1); if i >= N: return
NaiveEntry(t) ==
    /\ launched.kernel = "_gemv_cuda"
    /\ thr[t].pc = "entry"
    /\ thr' = [thr EXCEPT ![t].pc = IF grid1(t) >= N THEN "exit" ELSE "loop"]
    /\ UNCHANGED <<mem, lx, lxTile>>
    /\ DevUnchanged

\* prod = sum over range(M) of A[i, j]*x[j]; y[i] = alpha*prod + beta*y[i].
\* The worker reads A, x and its own y[i] only, and writes its own y[i] only.
NaiveRow(t) ==
    /\ launched.kernel = "_gemv_cuda"
    /\ thr[t].pc = "loop"
    /\ LET i == grid1(t)
           prod == Dot(mem[launched.A], mem[launched.x], i, M)
       IN /\ mem' = [mem EXCEPT ![launched.y][i] = alpha * prod + beta * @]
          /\ thr' = [thr EXCEPT ![t].pc = "done", ![t].prod = prod]
    /\ UNCHANGED <<lx, lxTile>>
    /\ DevUnchanged

--------------------------------------------------------------------------
\* The driver (__main__)

\* The command lines tried: argv[1] is a string, held character by character.
DimArgs == {<<"0">>, <<"1">>, <<"2">>, <<"3">>, <<"4">>, <<"5">>, <<"-", "1">>,
            <<"+", "2">>, <<"0", "3">>, <<"x">>, <<"1", "x">>, <<"-">>, <<>>}
VersionTags == {"v1", "v2", "v3", "v4", "cuda", "cuda_shared"}

Digits == {"0", "1", "2", "3", "4", "5", "6", "7", "8", "9"}
DigitVal(c) ==
    CASE c = "0" -> 0 [] c = "1" -> 1 [] c = "2" -> 2 [] c = "3" -> 3
      [] c = "4" -> 4 [] c = "5" -> 5 [] c = "6" -> 6 [] c = "7" -> 7
      [] c = "8" -> 8 [] c = "9" -> 9

RECURSIVE DecVal(_)
DecVal(s) == IF s = <<>> THEN 0
             ELSE 10 * DecVal(SubSeq(s, 1, Len(s) - 1)) + DigitVal(s[Len(s)])

IsDecimal(s) == Len(s) > 0 /\ \A k \in 1 .. Len(s) : s[k] \in Digits

\* int(s) on the strings of DimArgs: an optional sign and at least one digit;
\* anything else raises ValueError (ok = FALSE).
int(s) ==
    LET signed == Len(s) > 0 /\ s[1] \in {"-", "+"}
        body == IF signed THEN SubSeq(s, 2, Len(s)) ELSE s
    IN IF IsDecimal(body)
          THEN [ok |-> TRUE,
                val |-> IF signed /\ s[1] = "-" THEN 0 - DecVal(body) ELSE DecVal(body)]
          ELSE [ok |-> FALSE, val |-> 0]

\* The module's global names where the driver looks the kernel up, in the
\* order of their definition, each as name.split('_', maxsplit=1).
Globals == << <<"math">>, <<"numba">>, <<"cuda">>, <<"np">>, <<"sys">>, <<"time">>,
              <<"print", "usage">>, <<"time", "region">>, <<"time", "region_cuda">>,
              <<"gemv", "v1">>, <<"gemv", "v2">>, <<"", "gemv_cuda">>,
              <<"BLOCK", "SIZE">>, <<"", "gemv_cuda_shared">>, <<"gemv", "v3">>,
              <<"", "vecadd_cuda">>, <<"vecadd">>, <<"validate">>, <<"N">>,
              <<"version">> >>

\* the name a split name stands for
Joined(p) == IF Len(p) = 1 THEN p[1] ELSE p[1] \o "_" \o p[2]

\* 'gemv_' + version is a key of globals()
HasKernel(v) == \E k \in 1 .. Len(Globals) : Joined(Globals[k]) = "gemv_" \o v

RECURSIVE VersionsUpTo(_)
\* versions: for each global name that starts with 'gemv_', what follows it
VersionsUpTo(k) ==
    IF k = 0 THEN <<>>
    ELSE IF Len(Globals[k]) = 2 /\ Globals[k][1] = "gemv"
            THEN Append(VersionsUpTo(k - 1), Globals[k][2])
            ELSE VersionsUpTo(k - 1)
versions == VersionsUpTo(Len(Globals))

RECURSIVE join(_)
\* ", ".join(s)
join(s) == IF Len(s) = 0 THEN ""
           ELSE IF Len(s) = 1 THEN s[1]
           ELSE join(SubSeq(s, 1, Len(s) - 1)) \o ", " \o s[Len(s)]

UsageLine == "Usage: demo.py <arraydim> <version>"
\* print_usage(): one line on sys.stderr
print_usage_none(err) == err
print_usage(err) == Append(err, UsageLine)

\* the test of line 203 that ends the run: N <= 0
NonPositiveStrict(n) == n < 0
NonPositive(n) == n <= 0

\* 1.0 in the units y is held in
One == AlphaDen * Scale * Scale

\* np.allclose(found, expected): |found - expected| <= atol + rtol*|expected|
\* everywhere, with rtol = 1e-5 and atol = 1e-8, scaled by 10^8 and One
validate(found, expected) ==
    \A i \in DOMAIN expected :
        100000000 * Abs(found[i] - expected[i]) <= One + 1000 * Abs(expected[i])

\* alpha*(A @ x) + beta*y
gemv_v2(al, A, x, be, y) ==
    [i \in DOMAIN y |-> al * Dot(A, x, i, Cardinality(DOMAIN x)) + be * y[i]]

\* the array gemv_v1 writes its rows to: y_ret = np.empty(N)
v1_out_inplace == "y_orig"
v1_out == "y_ret"

\* the y argument of gemv_v3's launch: the device copy d_y
v3_kernel_y_host == "y_orig"
v3_kernel_y == "d_y"

HostUnchanged == UNCHANGED <<argv, N, alpha, beta, rng, launched, thr, rows, lx,
                            lxTile, hwExitedArrive>>

\* if len(sys.argv) < 3: error, usage, exit 1
CheckArgs ==
    /\ pc = "args"
    /\ IF Len(argv) + 1 < 3
          THEN /\ stderr' = print_usage(Append(stderr, "ERROR: too few arguments"))
               /\ exitCode' = 1
               /\ pc' = "exit"
          ELSE /\ pc' = "parse"
               /\ UNCHANGED <<stderr, exitCode>>
    /\ UNCHANGED <<version, mem, stdout>>
    /\ HostUnchanged

\* N = int(sys.argv[1]); on ValueError: error, exit 1
ParseDim ==
    /\ pc = "parse"
    /\ LET r == int(argv[1])
       IN IF r.ok
             THEN /\ N' = r.val
                  /\ pc' = "lookup"
                  /\ UNCHANGED <<stderr, exitCode>>
             ELSE /\ stderr' = Append(stderr, "ERROR: array dimension must be an integer")
                  /\ exitCode' = 1
                  /\ pc' = "exit"
                  /\ UNCHANGED N
    /\ UNCHANGED <<argv, version, alpha, beta, rng, mem, stdout, launched, thr, rows,
                   lx, lxTile, hwExitedArrive>>

\* version = sys.argv[2]; kernel = globals()['gemv_' + version]; on KeyError:
\* error, the available versions, exit 1 (the listing loop rebinds version)
LookupKernel ==
    /\ pc = "lookup"
    /\ IF HasKernel(argv[2])
          THEN /\ version' = argv[2]
               /\ pc' = "check"
               /\ UNCHANGED <<stderr, exitCode>>
          ELSE /\ stderr' = stderr \o
                    <<"ERROR: no such kernel version: " \o argv[2],
                      "  Available versions: " \o join(versions)>>
               /\ version' = versions[Len(versions)]
               /\ exitCode' = 1
               /\ pc' = "exit"
    /\ UNCHANGED <<mem, stdout>>
    /\ HostUnchanged

\* if N <= 0: error, exit 1
CheckPositive ==
    /\ pc = "check"
    /\ IF NonPositive(N)
          THEN /\ stderr' = Append(stderr, "ERROR: array dimension must be a positive integer")
               /\ exitCode' = 1
               /\ pc' = "exit"
          ELSE /\ pc' = "generate"
               /\ UNCHANGED <<stderr, exitCode>>
    /\ UNCHANGED <<version, mem, stdout>>
    /\ HostUnchanged

\* A = rand(N, N); x = rand(N); y_orig = ones(N); alpha = 0.2; beta = 1
Generate ==
    /\ pc = "generate"
    /\ mem' = [mem EXCEPT !["A"] = rand_matrix(N, N, rng.A),
                          !["x"] = rand_vector(N, rng.x),
                          !["y_orig"] = [i \in Idx(N) |-> One]]
    /\ alpha' = 1
    /\ beta' = 1
    /\ pc' = "call"
    /\ UNCHANGED <<argv, N, version, rng, stderr, stdout, exitCode, launched, thr,
                   rows, lx, lxTile, hwExitedArrive>>

\* y = kernel(alpha, A, x, beta, y_orig): the call, into the kernel looked up
CallKernel ==
    /\ pc = "call"
    /\ pc' = "gemv_" \o version
    /\ UNCHANGED <<version, mem, stderr, stdout, exitCode>>
    /\ HostUnchanged

\* gemv_v1: y_ret = np.empty(N)
gemv_v1_alloc ==
    /\ pc = "gemv_v1"
    /\ mem' = [mem EXCEPT !["y_ret"] = [i \in Idx(N) |-> 0]]
    /\ rows' = {}
    /\ pc' = "gemv_v1_loop"
    /\ UNCHANGED <<argv, N, version, alpha, beta, rng, stderr, stdout, exitCode,
                   launched, thr, lx, lxTile, hwExitedArrive>>

\* gemv_v1: one row of the parallel loop, the rows in any order
gemv_v1_row(i) ==
    /\ pc = "gemv_v1_loop"
    /\ i \in Idx(N) \ rows
    /\ LET prod == Dot(mem["A"], mem["x"], i, N)
       IN mem' = [mem EXCEPT ![v1_out][i] = alpha * prod + beta * mem["y_orig"][i]]
    /\ rows' = rows \cup {i}
    /\ UNCHANGED <<argv, pc, N, version, alpha, beta, rng, stderr, stdout, exitCode,
                   launched, thr, lx, lxTile, hwExitedArrive>>

\* gemv_v1: return y_ret
gemv_v1_return ==
    /\ pc = "gemv_v1_loop"
    /\ rows = Idx(N)
    /\ mem' = [mem EXCEPT !["y"] = mem["y_ret"]]
    /\ pc' = "validate"
    /\ UNCHANGED <<version, stderr, stdout, exitCode>>
    /\ HostUnchanged

\* gemv_v2, whole
gemv_v2_call ==
    /\ pc = "gemv_v2"
    /\ mem' = [mem EXCEPT !["y"] = gemv_v2(alpha, mem["A"], mem["x"], beta, mem["y_orig"])]
    /\ pc' = "validate"
    /\ UNCHANGED <<version, stderr, stdout, exitCode>>
    /\ HostUnchanged

\* gemv_v3: d_A, d_x, d_y = cuda.to_device(A), (x), (y)
gemv_v3_to_device ==
    /\ pc = "gemv_v3"
    /\ mem' = [mem EXCEPT !["d_A"] = mem["A"], !["d_x"] = mem["x"],
                          !["d_y"] = mem["y_orig"]]
    /\ pc' = "gemv_v3_launch"
    /\ UNCHANGED <<version, stderr, stdout, exitCode>>
    /\ HostUnchanged

\* gemv_v3: _gemv_cuda[num_blocks, BLOCK_SIZE](alpha, d_A, d_x, beta, d_y)
gemv_v3_launch ==
    /\ pc = "gemv_v3_launch"
    /\ launched' = [kernel |-> "_gemv_cuda", grid |-> num_blocks(N),
                    block |-> BLOCK_SIZE, A |-> "d_A", x |-> "d_x",
                    y |-> v3_kernel_y]
    /\ thr' = [t \in Idx(num_blocks(N) * BLOCK_SIZE) |-> NewWorker]
    /\ pc' = "gemv_v3_kernel"
    /\ UNCHANGED <<argv, N, version, alpha, beta, rng, mem, stderr, stdout, exitCode,
                   rows, lx, lxTile, hwExitedArrive>>

\* gemv_v3: the kernel has ended; y_ret = d_y.copy_to_host(); the two timing
\* lines; return y_ret
gemv_v3_copy_back ==
    /\ pc = "gemv_v3_kernel"
    /\ \A t \in Workers : thr[t].pc \in {"done", "exit"}
    /\ mem' = [mem EXCEPT !["y_ret"] = mem["d_y"], !["y"] = mem["d_y"]]
    /\ stdout' = stdout \o <<"  CUDA transfer times", "  CUDA kernel time">>
    /\ pc' = "validate"
    /\ UNCHANGED <<version, stderr, exitCode>>
    /\ HostUnchanged

\* the reference of line 223
y_ref == gemv_v2(alpha, mem["A"], mem["x"], beta, mem["y_orig"])

\* print the elapsed time; y_ref = alpha*(A @ x) + beta*y_orig; if not
\* validate(y, y_ref): report on stdout and exit 1; else the run ends, code 0
Validate ==
    /\ pc = "validate"
    /\ IF validate(mem["y"], y_ref)
          THEN /\ stdout' = Append(stdout, "Elapsed time")
               /\ exitCode' = 0
          ELSE /\ stdout' = stdout \o <<"Elapsed time",
                                       "ERROR: could not validate solution",
                                       "    found", "    expected">>
               /\ exitCode' = 1
    /\ pc' = "exit"
    /\ UNCHANGED <<version, mem, stderr>>
    /\ HostUnchanged

Init ==
    /\ argv \in {<<>>} \cup {<<d>> : d \in {<<"2">>, <<"x">>}}
                \cup {<<d, v>> : d \in DimArgs, v \in VersionTags}
                \cup {<<(<<"2">>), "v2", "extra">>}
    /\ pc = "args"
    /\ N = 0
    /\ version = ""
    /\ alpha = 0
    /\ beta = 0
    /\ rng \in [A : 0 .. MaxSeed, x : 0 .. MaxSeed]
    /\ mem = [name \in Arrays |-> Empty]
    /\ stderr = <<>>
    /\ stdout = <<>>
    /\ exitCode = -1
    /\ launched = [kernel |-> "none", grid |-> 0, block |-> 0, A |-> "d_A",
                   x |-> "d_x", y |-> "d_y"]
    /\ thr = [t \in {} |-> NewWorker]
    /\ rows = {}
    /\ lx = [g \in {} |-> Empty]
    /\ lxTile = [g \in {} |-> Empty]
    /\ hwExitedArrive = TRUE

Next ==
    \/ CheckArgs
    \/ ParseDim
    \/ LookupKernel
    \/ CheckPositive
    \/ Generate
    \/ CallKernel
    \/ gemv_v1_alloc
    \/ \E i \in Idx(N) : gemv_v1_row(i)
    \/ gemv_v1_return
    \/ gemv_v2_call
    \/ gemv_v3_to_device
    \/ gemv_v3_launch
    \/ \E t \in Workers : NaiveEntry(t)
    \/ \E t \in Workers : NaiveRow(t)
    \/ gemv_v3_copy_back
    \/ Validate

Spec == Init /\ [][Next]_vars

--------------------------------------------------------------------------
\* Properties of the tiled kernel (under SpecShared)

Finished == \A t \in Workers : thr[t].pc \in {"done", "exit"}

\* the workers that pass the row-bounds guard
Participating(t) == grid1(t) < N

\* alpha*(sum over j in 0..m-1 of A[i,j]*x[j]) + beta*y_in[i]
Reference(i, m) == alpha * Dot(mem["d_A"], XIn, i, m) + beta * YIn[i]

\* the number of groups that covers n rows: ceil(n / BLOCK_SIZE)
CeilDiv(n) == CHOOSE k \in 0 .. n : (k - 1) * BLOCK_SIZE < n /\ n <= k * BLOCK_SIZE

\* C1: for N a positive multiple of BLOCK_SIZE, under every interleaving, the
\* tiled kernel can always run on to its end, and every worker that has stored
\* has left alpha*(A @ x)[i] + beta*y_in[i] in its output element; when all
\* have finished, that is every element 0..N-1.
C1_TiledMatchesReference ==
    (launched.kernel = "_gemv_cuda_shared" /\ N % BLOCK_SIZE = 0) =>
        /\ launched.grid = CeilDiv(N)
        /\ Finished \/ ENABLED NextShared
        /\ \A t \in Workers :
             thr[t].pc = "done" => mem["d_y"][grid1(t)] = Reference(grid1(t), N)
        /\ Finished => \A i \in Idx(N) : mem["d_y"][i] = Reference(i, N)

\* a two-tile run that has finished with the reference in every element
C1_Witness ==
    /\ launched.kernel = "_gemv_cuda_shared"
    /\ N = 2 * BLOCK_SIZE
    /\ Finished
    /\ \A i \in Idx(N) : mem["d_y"][i] = Reference(i, N) /\ mem["d_y"][i] # YIn[i]

\* C2: in every group, either no worker has left through the guard or no
\* worker has reached a barrier.
C2_BarrierSymmetric ==
    \A t \in Workers, u \in Workers :
        (blockIdx(t) = blockIdx(u) /\ thr[t].pc = "exit") =>
            ~(thr[u].pc \in {"sync1", "compute", "sync2", "store", "done"}
              /\ Arrived(u) >= 1)

\* C8: while a worker still reads lx in the compute phase of tile b, the slot
\* of every participating worker of its group holds that worker's load for
\* tile b: the load is complete, and no load for a later tile has overwritten
\* it.
C8_NoRaceOnTile ==
    \A t \in Workers :
        thr[t].pc = "compute" =>
            \A u \in Group(blockIdx(t)) :
                Participating(u) =>
                    /\ lxTile[blockIdx(t)][threadIdx(u)] = thr[t].b
                    /\ thr[u].b = thr[t].b
                    /\ thr[u].pc \in {"sync1", "compute", "sync2"}

\* in the second tile, one worker reads while another of its group has
\* finished its reads and waits at the closing barrier
C8_Witness ==
    \E t \in Workers, u \in Workers :
        /\ t # u
        /\ blockIdx(t) = blockIdx(u)
        /\ thr[t].pc = "compute" /\ thr[t].b = 1 /\ thr[t].j = 1
        /\ thr[u].pc = "sync2" /\ thr[u].b = 1

\* C9: for M not a multiple of BLOCK_SIZE every row written holds the
\* reduction over the M // BLOCK_SIZE full tiles.
C9_PartialReduction ==
    (launched.kernel = "_gemv_cuda_shared" /\ M % BLOCK_SIZE # 0) =>
        \A t \in Workers :
            thr[t].pc = "done" =>
                mem["d_y"][grid1(t)] = Reference(grid1(t), tiles * BLOCK_SIZE)

\* C10: the slot a worker is about to read in the compute phase of tile b was
\* written by the load phase of tile b, with x[j + b*BLOCK_SIZE].
C10_ReadsLoadedSlots ==
    \A t \in Workers :
        thr[t].pc = "compute" =>
            /\ lxTile[blockIdx(t)][thr[t].j] = thr[t].b
            /\ lx[blockIdx(t)][thr[t].j] = XIn[thr[t].j + thr[t].b * BLOCK_SIZE]

--------------------------------------------------------------------------
\* Properties of the driver (under Spec)

TooFew == Len(argv) < 2
NotInteger == ~TooFew /\ ~int(argv[1]).ok
UnknownVersion == ~TooFew /\ ~NotInteger /\ argv[2] \notin {"v1", "v2", "v3"}
NonPositiveDim == ~TooFew /\ ~NotInteger /\ ~UnknownVersion /\ int(argv[1]).val <= 0
UserError == TooFew \/ NotInteger \/ UnknownVersion \/ NonPositiveDim

Lines(seq) == {seq[k] : k \in 1 .. Len(seq)}

\* C3: the kernel a run of version v3 launches is the tiled kernel.
C3_DeviceVersionRunsTiled ==
    (version = "v3" /\ launched.kernel # "none") =>
        launched.kernel = "_gemv_cuda_shared"

\* C4: gemv_v3 launches ceil(N / BLOCK_SIZE) groups of BLOCK_SIZE workers: at
\* least one, N / BLOCK_SIZE when that is whole, and every row 0..N-1 is the
\* global index of exactly one worker.
C4_GridCoversRows ==
    launched.kernel # "none" =>
        /\ N >= 1
        /\ launched.block = BLOCK_SIZE
        /\ launched.grid = CeilDiv(N)
        /\ launched.grid >= 1
        /\ (N % BLOCK_SIZE = 0 => launched.grid * BLOCK_SIZE = N)
        /\ \A i \in Idx(N) : Cardinality({t \in Workers : grid1(t) = i}) = 1

\* a launch with a remainder group
C4_Witness ==
    /\ launched.kernel = "_gemv_cuda"
    /\ N % BLOCK_SIZE # 0
    /\ launched.grid >= 2
    /\ Finished

\* C5: a run that has ended has exit code 1 exactly when the arguments are
\* too few, the dimension is no integer, the version is unknown, N <= 0 or
\* the result fails validation, and 0 otherwise; on the four argument errors
\* no array was generated and no kernel invoked; and a run that has not ended
\* can take a step.
C5_ExitCodes ==
    /\ pc = "exit" =>
         /\ exitCode = IF UserError \/ ~validate(mem["y"], y_ref) THEN 1 ELSE 0
         /\ UserError =>
              /\ \A name \in Arrays : mem[name] = Empty
              /\ launched.kernel = "none"
              /\ rows = {}
    /\ pc # "exit" => exitCode = -1 /\ ENABLED Next

\* a run ended by a dimension that is an integer, but not positive
C5_Witness ==
    /\ pc = "exit"
    /\ exitCode = 1
    /\ NonPositiveDim
    /\ N <= 0

\* C6 as claimed: every user-input error ends with code 1, its message and
\* the usage hint on the error stream.
C6_UsageOnEveryUserError ==
    (pc = "exit" /\ UserError) =>
        /\ exitCode = 1
        /\ Len(stderr) >= 1
        /\ UsageLine \in Lines(stderr)

\* C6 as amended: every user-input error ends with code 1 and its message on
\* the error stream; the usage hint follows only the too-few-arguments
\* message, and the list of available versions the unknown-version message.
C6_UserErrorsReported ==
    (pc = "exit" /\ UserError) =>
        /\ exitCode = 1
        /\ stdout = <<>>
        /\ TooFew => stderr = <<"ERROR: too few arguments", UsageLine>>
        /\ NotInteger => stderr = <<"ERROR: array dimension must be an integer">>
        /\ UnknownVersion =>
             stderr = <<"ERROR: no such kernel version: " \o argv[2],
                        "  Available versions: v1, v2, v3">>
        /\ NonPositiveDim =>
             stderr = <<"ERROR: array dimension must be a positive integer">>

\* a run ended for too few arguments, the usage hint printed
C6_Witness ==
    /\ pc = "exit"
    /\ TooFew
    /\ Len(argv) = 1
    /\ UsageLine \in Lines(stderr)

\* the operands exist: Generate has run
Generated == pc \notin {"args", "parse", "lookup", "check", "generate"}
             /\ ~(pc = "exit" /\ UserError)

\* C7: from their creation on, through every kernel and to the end of the
\* run, the host arrays A, x and y_orig hold the values they were created
\* with; the result y is another array than y_orig.
C7_HostOperandsKept ==
    Generated =>
        /\ mem["A"] = rand_matrix(N, N, rng.A)
        /\ mem["x"] = rand_vector(N, rng.x)
        /\ mem["y_orig"] = [i \in Idx(N) |-> One]
        /\ pc \in {"validate", "exit"} =>
             mem["y"] = [i \in Idx(N) |->
                           alpha * Dot(mem["A"], mem["x"], i, N) + beta * One]

\* the device kernel has changed d_y, and the run goes on to validate
C7_Witness ==
    /\ pc = "validate"
    /\ version = "v3"
    /\ N >= 2
    /\ \E i \in Idx(N) : mem["d_y"][i] # mem["y_orig"][i]
    /\ mem["y"] = mem["d_y"]

====
